---- MODULE Spec2Model ----
(***************************************************************************)
(* A model of distributed_cache_system.py: CacheNode (a bounded key/value  *)
(* store with an LRU, LFU or TTL eviction policy), DistributedCache (the   *)
(* consistent-hashing ring that routes a key to a node) and PubSubSystem   *)
(* (invalidation broadcast).  The wall clock (time.time()) is the variable *)
(* now: it never goes back, and two successive reads may return the same   *)
(* value.                                                                  *)
(*   Spec      one CacheNode, calls issued one at a time                   *)
(*   SpecDist  a DistributedCache over zero to three nodes                 *)
(*   SpecBus   a DistributedCache over two nodes and a PubSubSystem        *)
(*   SpecConc  one CacheNode called by two threads, statement by statement *)
(***************************************************************************)
EXTENDS Integers, Sequences, FiniteSets, TLC

\* ------------------------------------------------------------------ bounds
MaxCap   == 2      \* largest max_size a node is constructed with
MaxTime  == 1      \* the clock runs over 0..MaxTime
MaxTTL   == 1      \* ttl arguments are None or 0..MaxTTL
MaxCount == 3      \* an LFU counter is not incremented beyond this

Keys     == {"A", "B", "C"}
\* the keys the calls on a node use: two on a TTL node, whose state space
\* (an expiry per key) is by far the largest
KeysOf(policy) == IF policy = "TTL" THEN {"A", "B"} ELSE Keys
Values   == {1, 2, 3}           \* stand for the value strings
Policies == {"LRU", "LFU", "TTL"}
None     == 0 - 1               \* Python's None (absent value, absent ttl)
TTLs     == {None} \cup (0..MaxTTL)
\* the ttl arguments the calls on a node use: an LRU or LFU node gets one
\* representative ttl besides None
TTLsOf(policy) == IF policy = "TTL" THEN TTLs ELSE {None, MaxTTL}

VARIABLES
    nodes,   \* node_id -> the CacheNode object (a record of its fields)
    now,     \* the value time.time() returns
    last,    \* the call that returned last: its arguments and its outcome
    calls,   \* the calls made since construction, while they follow a script
    dcache,  \* the DistributedCache object: its nodes list and its node_map
    pubsub,  \* the PubSubSystem object: its subscribers table
    invoked, \* the nodes whose invalidate the last publish called, in order
    threads  \* thread -> the call it is running and where it stands in it

vars == <<nodes, now, last, calls, dcache, pubsub, invoked, threads>>

\* what the calls on a single node leave alone
others == <<dcache, pubsub, invoked, threads>>

\* --------------------------------------------------------- Python dicts
\* cache and ttl are never iterated in an order-dependent way: functions.
\* access_times and access_counts are iterated by min(): insertion-ordered
\* sequences of <<key, value>> pairs, as a Python dict is.
EmptyMap == [k \in {} |-> 0]

MapPut(m, key, v) == [k \in DOMAIN m \cup {key} |-> IF k = key THEN v ELSE m[k]]

MapDel(m, key) == [k \in DOMAIN m \ {key} |-> m[k]]

DKeys(d) == {d[i][1] : i \in DOMAIN d}

DGet(d, key) == d[CHOOSE i \in DOMAIN d : d[i][1] = key][2]

\* d[key] = v: an existing key keeps its position, a new key goes last
DPut(d, key, v) ==
    IF key \in DKeys(d)
    THEN [i \in DOMAIN d |-> IF d[i][1] = key THEN <<key, v>> ELSE d[i]]
    ELSE Append(d, <<key, v>>)

DDel(d, key) == SelectSeq(d, LAMBDA e : e[1] /= key)

\* mutant: among tied minimal values the last key, not the first
DMinLast(d) ==
    LET i == CHOOSE i \in DOMAIN d :
                 /\ \A j \in DOMAIN d : d[i][2] <= d[j][2]
                 /\ \A j \in (i + 1)..Len(d) : d[j][2] > d[i][2]
    IN  d[i][1]

\* mutant: max for min
DMax(d) ==
    LET i == CHOOSE i \in DOMAIN d :
                 /\ \A j \in DOMAIN d : d[i][2] >= d[j][2]
                 /\ \A j \in 1..(i - 1) : d[j][2] < d[i][2]
    IN  d[i][1]

\* min(d, key=d.get): the first key, in iteration order, of minimal value
DMin(d) ==
    LET i == CHOOSE i \in DOMAIN d :
                 /\ \A j \in DOMAIN d : d[i][2] <= d[j][2]
                 /\ \A j \in 1..(i - 1) : d[j][2] > d[i][2]
    IN  d[i][1]

\* ------------------------------------------------------------ CacheNode
CacheNode(node_id, eviction_policy, max_size) ==
    [ node_id         |-> node_id,
      max_size        |-> max_size,
      cache           |-> EmptyMap,
      eviction_policy |-> eviction_policy,
      access_times    |-> <<>>,
      access_counts   |-> <<>>,
      ttl             |-> EmptyMap ]

\* mutant: invalidate forgets the access counters
invalidate_keeps_counts(self, key) ==
    IF key \in DOMAIN self.cache
    THEN [self EXCEPT !.cache         = MapDel(@, key),
                      !.access_times  = DDel(@, key),
                      !.ttl           = MapDel(@, key)]
    ELSE self

\* mutant: invalidate forgets the expiry map
invalidate_keeps_ttl(self, key) ==
    IF key \in DOMAIN self.cache
    THEN [self EXCEPT !.cache         = MapDel(@, key),
                      !.access_times  = DDel(@, key),
                      !.access_counts = DDel(@, key)]
    ELSE self

invalidate(self, key) ==
    IF key \in DOMAIN self.cache
    THEN [self EXCEPT !.cache         = MapDel(@, key),
                      !.access_times  = DDel(@, key),
                      !.access_counts = DDel(@, key),
                      !.ttl           = MapDel(@, key)]
    ELSE self

RECURSIVE invalidate_all(_, _)
invalidate_all(self, keys) ==
    IF keys = {} THEN self
    ELSE LET key == CHOOSE k \in keys : TRUE
         IN  invalidate_all(invalidate(self, key), keys \ {key})

\* min() of an empty dict raises ValueError
_evict_raises(self) ==
    \/ self.eviction_policy = "LRU" /\ self.access_times = <<>>
    \/ self.eviction_policy = "LFU" /\ self.access_counts = <<>>

\* mutant: a TTL node with nothing expired falls back to evicting a key
_evict_with_fallback(self, current_time) ==
    CASE self.eviction_policy = "LRU" ->
           invalidate(self, DMin(self.access_times))
      [] self.eviction_policy = "LFU" ->
           invalidate(self, DMin(self.access_counts))
      [] self.eviction_policy = "TTL" ->
           LET expired_keys == {key \in DOMAIN self.ttl :
                                   self.ttl[key] <= current_time}
           IN  IF expired_keys = {} /\ DOMAIN self.cache /= {}
               THEN invalidate(self, CHOOSE k \in DOMAIN self.cache : TRUE)
               ELSE invalidate_all(self, expired_keys)
      [] OTHER -> self

\* mutant: the TTL sweep keeps a key whose expiry is the current time
_evict_strict(self, current_time) ==
    CASE self.eviction_policy = "LRU" ->
           invalidate(self, DMin(self.access_times))
      [] self.eviction_policy = "LFU" ->
           invalidate(self, DMin(self.access_counts))
      [] self.eviction_policy = "TTL" ->
           invalidate_all(self, {key \in DOMAIN self.ttl :
                                    self.ttl[key] < current_time})
      [] OTHER -> self

_evict(self, current_time) ==
    CASE self.eviction_policy = "LRU" ->
           invalidate(self, DMin(self.access_times))
      [] self.eviction_policy = "LFU" ->
           invalidate(self, DMin(self.access_counts))
      [] self.eviction_policy = "TTL" ->
           LET expired_keys == {key \in DOMAIN self.ttl :
                                   self.ttl[key] <= current_time}
           IN  invalidate_all(self, expired_keys)
      [] OTHER -> self

\* mutant: the policy test never matches, so nothing ever expires
expired_never(self, key, t) == FALSE

\* the lazy-expiry test of get: the key carries an expiry that time t is past
expired(self, key, t) ==
    /\ self.eviction_policy = "TTL"
    /\ key \in DOMAIN self.ttl
    /\ t > self.ttl[key]

\* mutant: the miss path indexes the dict (self.cache[key]) and raises
get_miss_raises(self) == [self |-> self, ret |-> None, exc |-> "KeyError"]

\* get of a key that is not stored
get_miss(self) == [self |-> self, ret |-> None, exc |-> ""]

\* mutant: a read of a key with an expiry moves the expiry (sliding TTL)
get_hit_refreshes_ttl(self, key, t) ==
    CASE self.eviction_policy = "LRU" ->
           [self |-> [self EXCEPT !.access_times = DPut(@, key, t)],
            ret  |-> self.cache[key], exc |-> ""]
      [] self.eviction_policy = "LFU" ->
           IF key \in DKeys(self.access_counts)
           THEN [self |-> [self EXCEPT !.access_counts =
                              DPut(@, key, DGet(@, key) + 1)],
                 ret  |-> self.cache[key], exc |-> ""]
           ELSE [self |-> self, ret |-> None, exc |-> "KeyError"]
      [] self.eviction_policy = "TTL" /\ key \in DOMAIN self.ttl ->
           [self |-> [self EXCEPT !.ttl = MapPut(@, key, t + MaxTTL + 1)],
            ret  |-> self.cache[key], exc |-> ""]
      [] OTHER ->
           [self |-> self, ret |-> self.cache[key], exc |-> ""]

\* get of a stored, unexpired key: the policy's metadata update and the value
get_hit(self, key, t) ==
    CASE self.eviction_policy = "LRU" ->
           [self |-> [self EXCEPT !.access_times = DPut(@, key, t)],
            ret  |-> self.cache[key], exc |-> ""]
      [] self.eviction_policy = "LFU" ->
           IF key \in DKeys(self.access_counts)
           THEN [self |-> [self EXCEPT !.access_counts =
                              DPut(@, key, DGet(@, key) + 1)],
                 ret  |-> self.cache[key], exc |-> ""]
           ELSE [self |-> self, ret |-> None, exc |-> "KeyError"]
      [] OTHER ->
           [self |-> self, ret |-> self.cache[key], exc |-> ""]

\* mutant: an expired key is reported absent but left in place
get_keeps_expired(self, key, t) ==
    IF key \in DOMAIN self.cache
    THEN IF expired(self, key, t)
         THEN [self |-> self, ret |-> None, exc |-> ""]
         ELSE get_hit(self, key, t)
    ELSE get_miss(self)

\* get(key) called when time.time() returns t: the node afterwards, the
\* value returned and the exception raised ("" when none)
\* mutant: every get first purges all keys whose expiry is past
get_purges_expired(self, key, t) ==
    LET purged == invalidate_all(self, {k \in DOMAIN self.ttl :
                                           expired(self, k, t)})
    IN  IF key \in DOMAIN purged.cache
        THEN get_hit(purged, key, t)
        ELSE [self |-> purged, ret |-> None, exc |-> ""]

get(self, key, t) ==
    IF key \in DOMAIN self.cache
    THEN IF expired(self, key, t)
         THEN [self |-> invalidate(self, key), ret |-> None, exc |-> ""]
         ELSE get_hit(self, key, t)
    ELSE get_miss(self)

\* mutant: the capacity test is off by one (> for >=)
is_full_off_by_one(self) == Cardinality(DOMAIN self.cache) > self.max_size

\* the test of set that decides whether _evict runs
is_full(self) == Cardinality(DOMAIN self.cache) >= self.max_size

\* mutant: the ttl branch is an if of its own, taken under every policy
set_metadata_ttl_everywhere(self, key, ttl, t) ==
    LET m == CASE self.eviction_policy = "LRU" ->
                    [self EXCEPT !.access_times = DPut(@, key, t)]
               [] self.eviction_policy = "LFU" ->
                    [self EXCEPT !.access_counts = DPut(@, key, 1)]
               [] OTHER -> self
    IN  IF ttl /= None THEN [m EXCEPT !.ttl = MapPut(@, key, t + ttl)]
        ELSE m

\* mutant: an LRU node gets no access time for the key
set_metadata_no_time(self, key, ttl, t) ==
    CASE self.eviction_policy = "LFU" ->
           [self EXCEPT !.access_counts = DPut(@, key, 1)]
      [] self.eviction_policy = "TTL" /\ ttl /= None ->
           [self EXCEPT !.ttl = MapPut(@, key, t + ttl)]
      [] OTHER -> self

\* mutant: an LFU counter that exists is kept (setdefault(key, 1))
set_metadata_keeps_count(self, key, ttl, t) ==
    CASE self.eviction_policy = "LRU" ->
           [self EXCEPT !.access_times = DPut(@, key, t)]
      [] self.eviction_policy = "LFU" ->
           IF key \in DKeys(self.access_counts) THEN self
           ELSE [self EXCEPT !.access_counts = DPut(@, key, 1)]
      [] self.eviction_policy = "TTL" /\ ttl /= None ->
           [self EXCEPT !.ttl = MapPut(@, key, t + ttl)]
      [] OTHER -> self

\* the metadata set writes for the key after storing the value at time t
set_metadata(self, key, ttl, t) ==
    CASE self.eviction_policy = "LRU" ->
           [self EXCEPT !.access_times = DPut(@, key, t)]
      [] self.eviction_policy = "LFU" ->
           [self EXCEPT !.access_counts = DPut(@, key, 1)]
      [] self.eviction_policy = "TTL" /\ ttl /= None ->
           [self EXCEPT !.ttl = MapPut(@, key, t + ttl)]
      [] OTHER -> self

\* set(key, value, ttl): t1 is the clock read by _evict, t2 >= t1 the clock
\* read when the metadata is written
set(self, key, value, ttl, t1, t2) ==
    IF is_full(self) /\ _evict_raises(self)
    THEN [self |-> self, ret |-> None, exc |-> "ValueError"]
    ELSE LET e == IF is_full(self) THEN _evict(self, t1) ELSE self
             c == [e EXCEPT !.cache = MapPut(@, key, value)]
         IN  [self |-> set_metadata(c, key, ttl, t2), ret |-> None, exc |-> ""]

\* ----------------------------------------------------- DistributedCache
VirtualNodes == 3

\* _hash(key): int(sha256(key).hexdigest(), 16).  Only the order of hash
\* values is ever used, so each digest is given by its 16 leading bits
\* (distinct for these strings); a string not listed is not hashed.
_hash(key) ==
    CASE key = "node1_0" -> 43765  [] key = "node1_1" -> 53476
      [] key = "node1_2" -> 41313  [] key = "node2_0" -> 24623
      [] key = "node2_1" -> 55523  [] key = "node2_2" -> 17304
      [] key = "node3_0" -> 14716  [] key = "node3_1" -> 9351
      [] key = "node3_2" -> 6916   [] key = "A" -> 21914
      [] key = "B" -> 57214        [] key = "C" -> 27427

\* f"{node.node_id}_{i}"
virtual_name(node_id, i) == node_id \o "_" \o ToString(i)

\* the two loops of _create_node_map from their step j on (node j \div 3,
\* virtual node j % 3); heap maps a node reference to the node object
RECURSIVE _create_node_map_from(_, _, _, _)
_create_node_map_from(node_map, self_nodes, heap, j) ==
    IF j >= Len(self_nodes) * VirtualNodes THEN node_map
    ELSE LET node     == self_nodes[(j \div VirtualNodes) + 1]
             hash_key == _hash(virtual_name(heap[node].node_id,
                                            j % VirtualNodes))
         IN  _create_node_map_from(MapPut(node_map, hash_key, node),
                                   self_nodes, heap, j + 1)

_create_node_map(self_nodes, heap) ==
    _create_node_map_from(EmptyMap, self_nodes, heap, 0)

DistributedCache(self_nodes, heap) ==
    [nodes |-> self_nodes, node_map |-> _create_node_map(self_nodes, heap)]

\* sorted(keys): ascending
RECURSIVE sorted(_)
sorted(keys) ==
    IF keys = {} THEN <<>>
    ELSE LET least == CHOOSE k \in keys : \A j \in keys : k <= j
         IN  <<least>> \o sorted(keys \ {least})

\* mutant: the successor test is strict (< for <=)
owns_strict(hash_key, node_key) == hash_key < node_key

\* the test of the scan of _get_node
owns(hash_key, node_key) == hash_key <= node_key

\* mutant: the wrap-around return is missing, the function ends with None
_get_node_from_no_wrap(self, sorted_keys, hash_key, i) ==
    LET above == {j \in DOMAIN sorted_keys :
                     j >= i /\ owns(hash_key, sorted_keys[j])}
    IN  IF above = {} THEN [node |-> "", exc |-> ""]
        ELSE [node |-> self.node_map[sorted_keys[
                          CHOOSE j \in above : \A k \in above : j <= k]],
              exc |-> ""]

\* mutant: on an empty ring the scan returns None instead of raising
_get_node_from_none(self, sorted_keys, hash_key, i) ==
    IF sorted_keys = <<>> THEN [node |-> "", exc |-> ""]
    ELSE LET above == {j \in DOMAIN sorted_keys :
                          j >= i /\ owns(hash_key, sorted_keys[j])}
         IN  IF above = {}
             THEN [node |-> self.node_map[sorted_keys[1]], exc |-> ""]
             ELSE [node |-> self.node_map[sorted_keys[
                               CHOOSE j \in above : \A k \in above : j <= k]],
                   exc |-> ""]

\* the for loop of _get_node from position i on, then the wrap-around;
\* sorted_keys[0] of an empty list raises IndexError
RECURSIVE _get_node_from(_, _, _, _)
_get_node_from(self, sorted_keys, hash_key, i) ==
    IF i <= Len(sorted_keys)
    THEN IF owns(hash_key, sorted_keys[i])
         THEN [node |-> self.node_map[sorted_keys[i]], exc |-> ""]
         ELSE _get_node_from(self, sorted_keys, hash_key, i + 1)
    ELSE IF sorted_keys = <<>>
         THEN [node |-> "", exc |-> "IndexError"]
         ELSE [node |-> self.node_map[sorted_keys[1]], exc |-> ""]

\* mutant: routing by room: the first node of self.nodes that is not full,
\* the first node when all are full
_get_node_first_with_room(self, key) ==
    IF self.nodes = <<>> THEN [node |-> "", exc |-> "IndexError"]
    ELSE LET room == {i \in DOMAIN self.nodes :
                         Cardinality(DOMAIN nodes[self.nodes[i]].cache)
                             < nodes[self.nodes[i]].max_size}
         IN  [node |-> self.nodes[IF room = {} THEN 1
                                  ELSE CHOOSE i \in room :
                                           \A j \in room : i <= j],
              exc  |-> ""]

\* mutant: routing by load: the node of self.nodes that stores the fewest
\* entries, the first of them in list order
_get_node_least_loaded(self, key) ==
    IF self.nodes = <<>> THEN [node |-> "", exc |-> "IndexError"]
    ELSE LET load(i) == Cardinality(DOMAIN nodes[self.nodes[i]].cache)
             i == CHOOSE i \in DOMAIN self.nodes :
                     /\ \A j \in DOMAIN self.nodes : load(i) <= load(j)
                     /\ \A j \in 1..(i - 1) : load(j) > load(i)
         IN  [node |-> self.nodes[i], exc |-> ""]

_get_node(self, key) ==
    _get_node_from(self, sorted(DOMAIN self.node_map), _hash(key), 1)

\* --------------------------------------------------------- PubSubSystem
\* mutant: a node already subscribed to the channel is not appended again
subscribe_dedup(self, channel, node) ==
    LET made == IF channel \in DOMAIN self.subscribers
                THEN self.subscribers
                ELSE MapPut(self.subscribers, channel, <<>>)
    IN  IF \E i \in DOMAIN made[channel] : made[channel][i] = node
        THEN [self EXCEPT !.subscribers = made]
        ELSE [self EXCEPT !.subscribers =
                 [made EXCEPT ![channel] = Append(@, node)]]

subscribe(self, channel, node) ==
    LET made == IF channel \in DOMAIN self.subscribers
                THEN self.subscribers
                ELSE MapPut(self.subscribers, channel, <<>>)
    IN  [self EXCEPT !.subscribers =
            [made EXCEPT ![channel] = Append(@, node)]]

\* mutant: the loop of publish ends after its first subscriber
publish_first_only(heap, called, subscribed, message, i) ==
    IF i > Len(subscribed) THEN [heap |-> heap, called |-> called]
    ELSE [heap   |-> [heap EXCEPT ![subscribed[i]] = invalidate(@, message)],
          called |-> Append(called, subscribed[i])]

\* mutant: each subscriber drops everything it stores
publish_from_clears(heap, called, subscribed, message, i) ==
    IF i > Len(subscribed) THEN [heap |-> heap, called |-> called]
    ELSE [heap   |-> [n \in DOMAIN heap |->
                        IF \E j \in DOMAIN subscribed : subscribed[j] = n
                        THEN CacheNode(heap[n].node_id,
                                       heap[n].eviction_policy,
                                       heap[n].max_size)
                        ELSE heap[n]],
          called |-> called \o SubSeq(subscribed, i, Len(subscribed))]

\* the loop of publish from position i on: the heap after the invalidate
\* calls, and the nodes called, in order
RECURSIVE publish_from(_, _, _, _, _)
publish_from(heap, called, subscribed, message, i) ==
    IF i > Len(subscribed) THEN [heap |-> heap, called |-> called]
    ELSE LET node == subscribed[i]
         IN  publish_from([heap EXCEPT ![node] = invalidate(@, message)],
                          Append(called, node), subscribed, message, i + 1)

\* mutant: the channel is looked up under another name and never found
publish_unknown_channel(self, heap, channel, message) ==
    [heap |-> heap, called |-> <<>>]

publish(self, heap, channel, message) ==
    IF channel \in DOMAIN self.subscribers
    THEN publish_from(heap, <<>>, self.subscribers[channel], message, 1)
    ELSE [heap |-> heap, called |-> <<>>]

\* -------------------------------------------------------------- scripts
\* The call sequences of the documented eviction-order scenarios.
LRUScript == << <<"set", "A", 1>>, <<"set", "B", 2>>, <<"get", "A", None>>,
                <<"set", "C", 3>> >>

LFUScript == << <<"set", "A", 1>>, <<"set", "B", 2>>, <<"get", "A", None>>,
                <<"get", "A", None>>, <<"set", "C", 3>> >>

\* a key is read and then overwritten
OverwriteScript == << <<"set", "A", 1>>, <<"get", "A", None>>,
                      <<"set", "A", 2>> >>

Off == << <<"off", "", None>> >>

IsPrefix(s, t) == Len(s) <= Len(t) /\ \A i \in 1..Len(s) : s[i] = t[i]

Track(c) ==
    LET s == Append(calls, c)
    IN  IF calls /= Off /\ (\/ IsPrefix(s, LRUScript)
                            \/ IsPrefix(s, LFUScript)
                            \/ IsPrefix(s, OverwriteScript))
        THEN s ELSE Off

\* -------------------------------------------------------------- actions
NoCall(op) ==
    [op |-> op, node |-> "", key |-> "", value |-> None, had |-> FALSE,
     ret |-> None, exc |-> ""]

\* no DistributedCache, an empty PubSubSystem, no thread
NoCache  == [nodes |-> <<>>, node_map |-> EmptyMap]
PubSubSystem == [subscribers |-> EmptyMap]
NoThreads == [t \in {} |-> 0]

Init ==
    /\ \E p \in Policies, m \in 0..MaxCap :
          nodes = [n \in {"node1"} |-> CacheNode(n, p, m)]
    /\ now = 0
    /\ last = NoCall("init")
    /\ calls = <<>>
    /\ dcache = NoCache
    /\ pubsub = PubSubSystem
    /\ invoked = <<>>
    /\ threads = NoThreads

\* Time passes between two calls.  An LFU node never reads the clock, so
\* the step is taken only when some node's policy reads it.
Tick ==
    /\ now < MaxTime
    /\ \E n \in DOMAIN nodes : nodes[n].eviction_policy /= "LFU"
    /\ now' = now + 1
    /\ last' = NoCall("tick")
    /\ UNCHANGED <<nodes, calls>>
    /\ UNCHANGED others

\* last.had: whether the key was stored when the call started
Get(n, key) ==
    \E r \in {get(nodes[n], key, now)} :
        /\ \A i \in DOMAIN nodes[n].access_counts :
               nodes[n].access_counts[i][1] = key
                   => nodes[n].access_counts[i][2] < MaxCount
        /\ nodes' = [nodes EXCEPT ![n] = r.self]
        /\ last' = [op |-> "get", node |-> n, key |-> key, value |-> None,
                    had |-> key \in DOMAIN nodes[n].cache,
                    ret |-> r.ret, exc |-> r.exc]
        /\ calls' = Track(<<"get", key, None>>)
        /\ UNCHANGED now
        /\ UNCHANGED others

\* last.evicted of a set: the keys its _evict removed at time t
evicted_by_set(self, t) ==
    IF is_full(self) /\ ~_evict_raises(self)
    THEN DOMAIN self.cache \ DOMAIN _evict(self, t).cache
    ELSE {}

\* d: the time that passes between the two clock reads of a set on a TTL
\* node (the other policies read the clock once)
Set(n, key, value, ttl) ==
    \E d \in IF nodes[n].eviction_policy = "TTL" THEN 0..1 ELSE {0} :
        \E r \in {set(nodes[n], key, value, ttl, now, now + d)} :
            /\ now + d <= MaxTime
            /\ nodes' = [nodes EXCEPT ![n] = r.self]
            /\ now' = now + d
            /\ last' = [op |-> "set", node |-> n, key |-> key,
                        value |-> value,
                        had |-> key \in DOMAIN nodes[n].cache,
                        ret |-> r.ret, exc |-> r.exc,
                        evicted |-> evicted_by_set(nodes[n], now)]
            /\ calls' = Track(IF ttl = None THEN <<"set", key, value>>
                              ELSE <<"off", "", None>>)
            /\ UNCHANGED others

Invalidate(n, key) ==
    /\ nodes' = [nodes EXCEPT ![n] = invalidate(@, key)]
    /\ last' = [op |-> "invalidate", node |-> n, key |-> key, value |-> None,
                had |-> key \in DOMAIN nodes[n].cache,
                ret |-> None, exc |-> ""]
    /\ calls' = Track(<<"invalidate", key, None>>)
    /\ UNCHANGED now
    /\ UNCHANGED others

Next ==
    \/ Tick
    \/ \E n \in DOMAIN nodes : \E key \in KeysOf(nodes[n].eviction_policy) :
           Get(n, key)
    \/ \E n \in DOMAIN nodes : \E key \in KeysOf(nodes[n].eviction_policy),
                                   value \in Values,
                                   ttl \in TTLsOf(nodes[n].eviction_policy) :
           Set(n, key, value, ttl)
    \/ \E n \in DOMAIN nodes : \E key \in KeysOf(nodes[n].eviction_policy) :
           Invalidate(n, key)

Spec == Init /\ [][Next]_vars

\* ------------------------------------------------------------- SpecDist
\* main(): node1 is a TTL node, node2 an LRU node, node3 an LFU node; the
\* DistributedCache is built from a list of them (the empty list included).

\* node1b is a second TTL node constructed with the node_id of node1
PolicyOf(node) ==
    CASE node = "node1"  -> "TTL"
      [] node = "node1b" -> "TTL"
      [] node = "node2"  -> "LRU"
      [] node = "node3"  -> "LFU"

IdOf(node) == IF node = "node1b" THEN "node1" ELSE node

ShardLists == { <<>>, <<"node2">>, <<"node1", "node2">>,
                <<"node1", "node2", "node3">>, <<"node1", "node1b">> }

\* A lies below a ring point, B above every ring point (wrap-around), and
\* node1_1 exactly on a ring point of node1 (the next point is node2's)
DistKeys   == {"A", "B", "node1_1"}
DistValues == {1, 2}
DistTTLs   == {None, 0}

\* the nodes constructed for a shard list, each of capacity m
HeapOf(self_nodes, m) ==
    [n \in {self_nodes[i] : i \in DOMAIN self_nodes} |->
        CacheNode(IdOf(n), PolicyOf(n), m)]

InitDist ==
    /\ \E self_nodes \in ShardLists, m \in 1..MaxCap :
          /\ nodes = HeapOf(self_nodes, m)
          /\ dcache = DistributedCache(self_nodes, HeapOf(self_nodes, m))
    /\ now = 0
    /\ last = NoCall("init")
    /\ calls = <<>>
    /\ pubsub = PubSubSystem
    /\ invoked = <<>>
    /\ threads = NoThreads

\* how the call goes on after _get_node: with its exception, or with the
\* AttributeError of calling a method of a node that is no object
Located(loc) ==
    IF loc.exc /= "" THEN loc.exc
    ELSE IF loc.node \notin DOMAIN nodes THEN "AttributeError" ELSE ""

\* a call that ends with an exception: nothing else has run
Raised(op, key, value, exc) ==
    /\ last' = [op |-> op, node |-> "", key |-> key, value |-> value,
                had |-> FALSE, ret |-> None, exc |-> exc]
    /\ UNCHANGED <<nodes, now>>

\* last.had of a publish: it called some node, and every node it called
\* stored the key; last.removed of a publish: the nodes it called that
\* stored the key; last.ttl: the ttl argument of a DistributedCache.set
\* DistributedCache.get(key)
DistGet(key) ==
    \E loc \in {_get_node(dcache, key)} :
        /\ IF Located(loc) /= "" THEN Raised("dc_get", key, None, Located(loc))
           ELSE \E n \in {loc.node} : \E r \in {get(nodes[n], key, now)} :
                    /\ \A i \in DOMAIN nodes[n].access_counts :
                           nodes[n].access_counts[i][1] = key
                               => nodes[n].access_counts[i][2] < MaxCount
                    /\ nodes' = [nodes EXCEPT ![n] = r.self]
                    /\ last' = [op |-> "dc_get", node |-> n, key |-> key,
                                value |-> None,
                                had |-> key \in DOMAIN nodes[n].cache,
                                ret |-> r.ret, exc |-> r.exc]
                    /\ UNCHANGED now
        /\ invoked' = <<>>
        /\ UNCHANGED <<calls, dcache, pubsub, threads>>

\* DistributedCache.set(key, value, ttl)
DistSet(key, value, ttl) ==
    \E loc \in {_get_node(dcache, key)} :
        /\ IF Located(loc) /= "" THEN Raised("dc_set", key, value, Located(loc))
           ELSE LET n == loc.node
                IN  \E d \in IF nodes[n].eviction_policy = "TTL"
                              THEN 0..1 ELSE {0} :
                       \E r \in {set(nodes[n], key, value, ttl, now, now + d)} :
                           /\ now + d <= MaxTime
                           /\ nodes' = [nodes EXCEPT ![n] = r.self]
                           /\ now' = now + d
                           /\ last' = [op |-> "dc_set", node |-> n,
                                       key |-> key, value |-> value,
                                       had |-> key \in DOMAIN nodes[n].cache,
                                       ret |-> r.ret, exc |-> r.exc,
                                       ttl |-> ttl]
        /\ invoked' = <<>>
        /\ UNCHANGED <<calls, dcache, pubsub, threads>>

\* mutant: invalidate is broadcast to every node of the cache
dc_invalidate_everywhere(heap, node, key) ==
    [n \in DOMAIN heap |-> invalidate(heap[n], key)]

\* node.invalidate(key) of DistributedCache.invalidate, on the heap
dc_invalidate(heap, node, key) ==
    [heap EXCEPT ![node] = invalidate(@, key)]

\* DistributedCache.invalidate(key)
DistInvalidate(key) ==
    \E loc \in {_get_node(dcache, key)} :
        /\ IF Located(loc) /= ""
           THEN Raised("dc_invalidate", key, None, Located(loc))
           ELSE LET n == loc.node
                IN  /\ nodes' = dc_invalidate(nodes, n, key)
                    /\ last' = [op |-> "dc_invalidate", node |-> n,
                                key |-> key, value |-> None,
                                had |-> key \in DOMAIN nodes[n].cache,
                                ret |-> None, exc |-> ""]
                    /\ UNCHANGED now
        /\ invoked' = <<>>
        /\ UNCHANGED <<calls, dcache, pubsub, threads>>

NextDist ==
    \/ Tick
    \/ \E key \in DistKeys : DistGet(key)
    \/ \E key \in DistKeys, value \in DistValues, ttl \in DistTTLs :
           DistSet(key, value, ttl)
    \/ \E key \in DistKeys : DistInvalidate(key)

SpecDist == InitDist /\ [][NextDist]_vars

\* -------------------------------------------------------------- SpecBus
\* A DistributedCache over node2 and node3, and a PubSubSystem with one
\* channel.  Nodes are written through the DistributedCache and directly.
MaxSubs == 2       \* longest subscriber list of a channel

Channel   == "cache_invalidation"
BusNodes  == <<"node2", "node3">>
\* A is routed to node2, B (wrap-around) to node3
BusKeys   == {"A", "B"}
BusValues == {1}

\* capacities from 1 up to the number of keys: a larger node is never full
InitBus ==
    /\ \E m \in 1..Cardinality(BusKeys) :
          /\ nodes = HeapOf(BusNodes, m)
          /\ dcache = DistributedCache(BusNodes, HeapOf(BusNodes, m))
    /\ now = 0
    /\ last = NoCall("init")
    /\ calls = <<>>
    /\ pubsub = PubSubSystem
    /\ invoked = <<>>
    /\ threads = NoThreads

\* PubSubSystem.subscribe(channel, node)
Subscribe(channel, n) ==
    /\ channel \in DOMAIN pubsub.subscribers
          => Len(pubsub.subscribers[channel]) < MaxSubs
    /\ pubsub' = subscribe(pubsub, channel, n)
    /\ last' = [NoCall("subscribe") EXCEPT !.node = n]
    /\ invoked' = <<>>
    /\ UNCHANGED <<nodes, now, calls, dcache, threads>>

\* PubSubSystem.publish(channel, message)
Publish(channel, message) ==
    \E r \in {publish(pubsub, nodes, channel, message)} :
        /\ nodes' = r.heap
        /\ invoked' = r.called
        /\ last' = [op |-> "publish", node |-> "", key |-> message,
                    value |-> None,
                    had |-> /\ r.called /= <<>>
                            /\ \A i \in DOMAIN r.called :
                                  message \in DOMAIN nodes[r.called[i]].cache,
                    ret |-> None, exc |-> "",
                    removed |-> {n \in {r.called[i] : i \in DOMAIN r.called} :
                                    message \in DOMAIN nodes[n].cache}]
        /\ UNCHANGED <<now, calls, dcache, pubsub, threads>>

\* the clock stands still here: every call of the session reads the same
\* time.time()
NextBus ==
    \/ \E key \in BusKeys : DistGet(key)
    \/ \E key \in BusKeys, value \in BusValues : DistSet(key, value, None)
    \/ \E key \in BusKeys : DistInvalidate(key)
    \/ \E n \in DOMAIN nodes : Subscribe(Channel, n)
    \/ \E key \in BusKeys : Publish(Channel, key)
    \* a set made directly on a node, whatever the ring says
    \/ \E n \in DOMAIN nodes, key \in BusKeys, value \in BusValues :
           Set(n, key, value, None)

SpecBus == InitBus /\ [][NextBus]_vars

\* ------------------------------------------------------------- SpecMain
\* main(): every node of the DistributedCache is subscribed to the channel,
\* in list order, and the nodes are written through the DistributedCache
\* and the PubSubSystem only.

RECURSIVE subscribe_each(_, _, _, _)
subscribe_each(self, channel, self_nodes, i) ==
    IF i > Len(self_nodes) THEN self
    ELSE subscribe_each(subscribe(self, channel, self_nodes[i]),
                        channel, self_nodes, i + 1)

InitMain ==
    /\ \E self_nodes \in ShardLists \ {<<>>}, m \in 1..MaxCap :
          /\ nodes = HeapOf(self_nodes, m)
          /\ dcache = DistributedCache(self_nodes, HeapOf(self_nodes, m))
          /\ pubsub = subscribe_each(PubSubSystem, Channel, self_nodes, 1)
    /\ now = 0
    /\ last = NoCall("init")
    /\ calls = <<>>
    /\ invoked = <<>>
    /\ threads = NoThreads

NextMain ==
    \/ Tick
    \/ \E key \in DistKeys : DistGet(key)
    \/ \E key \in DistKeys, value \in DistValues, ttl \in DistTTLs :
           DistSet(key, value, ttl)
    \/ \E key \in DistKeys : DistInvalidate(key)
    \/ \E key \in DistKeys : Publish(Channel, key)

SpecMain == InitMain /\ [][NextMain]_vars

\* ------------------------------------------------- threads on one node
\* CacheNode takes no lock (threading is imported and never used), so the
\* statements of calls that threads make on one node interleave.  A thread
\* is a record: the call it makes, the line it stands at (pc), and the
\* locals of the frames below the call: the key invalidate was called with
\* (ikey), where invalidate returns to (back) and the expired keys the loop
\* of _evict has not visited yet (pending).  A statement is one step.

Threads    == {"t1", "t2"}
ConcKeys   == {"A", "B"}
ConcTTLs   == {None, 0}
\* the value the node is filled with before the threads start, and the
\* value the threads set
OldValue   == 1
NewValue   == 2

Idle ==
    [op |-> "", key |-> "", value |-> None, ttl |-> None, pc |-> "idle",
     ikey |-> "", back |-> "", pending |-> <<>>, ret |-> None, exc |-> ""]

\* the call of the thread ends: with a return value, with an exception
Return(th, v) == [Idle EXCEPT !.op = th.op, !.key = th.key,
                              !.value = th.value, !.ttl = th.ttl,
                              !.pc = "done", !.ret = v]
Raise(th, e)  == [Return(th, None) EXCEPT !.exc = e]

\* invalidate(key) is called and returns to line back
CallInvalidate(th, key, back) ==
    [th EXCEPT !.pc = "L62", !.ikey = key, !.back = back]

\* invalidate returns: to _evict (L58), to set (L37), or out of the call
\* (get line 24 and invalidate itself return None)
ReturnInvalidate(th) ==
    IF th.back \in {"L37", "L58"}
    THEN [th EXCEPT !.pc = th.back, !.ikey = "", !.back = ""]
    ELSE Return(th, None)

\* a list of the elements of a set
RECURSIVE SetToSeq(_)
SetToSeq(S) ==
    IF S = {} THEN <<>>
    ELSE LET x == CHOOSE x \in S : TRUE IN <<x>> \o SetToSeq(S \ {x})

\* the statement at th.pc, executed on node self when time.time() is t
statement(self, th, t) ==
    CASE th.pc = "L19" ->       \* get: if key in self.cache
           [self |-> self,
            th   |-> IF th.key \in DOMAIN self.cache
                     THEN [th EXCEPT !.pc = "L21"] ELSE Return(th, None)]
      [] th.pc = "L21" ->       \* if policy == "TTL" and key in self.ttl
           [self |-> self,
            th   |-> IF self.eviction_policy = "TTL"
                        /\ th.key \in DOMAIN self.ttl
                     THEN [th EXCEPT !.pc = "L22"]
                     ELSE [th EXCEPT !.pc = "L27"]]
      [] th.pc = "L22" ->       \* if time.time() > self.ttl[key]
           [self |-> self,
            th   |-> IF th.key \notin DOMAIN self.ttl
                     THEN Raise(th, "KeyError")
                     ELSE IF t > self.ttl[th.key]
                          THEN CallInvalidate(th, th.key, "L24")
                          ELSE [th EXCEPT !.pc = "L27"]]
      [] th.pc = "L27" ->       \* the access time or count of the key
           CASE self.eviction_policy = "LRU" ->
                  [self |-> [self EXCEPT !.access_times = DPut(@, th.key, t)],
                   th   |-> [th EXCEPT !.pc = "L31"]]
             [] self.eviction_policy = "LFU" ->
                  IF th.key \in DKeys(self.access_counts)
                  THEN [self |-> [self EXCEPT !.access_counts =
                                     DPut(@, th.key, DGet(@, th.key) + 1)],
                        th   |-> [th EXCEPT !.pc = "L31"]]
                  ELSE [self |-> self, th |-> Raise(th, "KeyError")]
             [] OTHER ->
                  [self |-> self, th |-> [th EXCEPT !.pc = "L31"]]
      [] th.pc = "L31" ->       \* return self.cache[key]
           [self |-> self,
            th   |-> IF th.key \in DOMAIN self.cache
                     THEN Return(th, self.cache[th.key])
                     ELSE Raise(th, "KeyError")]
      [] th.pc = "L35" ->       \* set: if len(self.cache) >= self.max_size
           [self |-> self,
            th   |-> IF is_full(self) THEN [th EXCEPT !.pc = "L46"]
                                      ELSE [th EXCEPT !.pc = "L37"]]
      [] th.pc = "L46" ->       \* _evict: the key or keys to evict
           [self |-> self,
            th   |-> CASE self.eviction_policy = "LRU" ->
                            IF self.access_times = <<>>
                            THEN Raise(th, "ValueError")
                            ELSE CallInvalidate(th, DMin(self.access_times),
                                                "L37")
                       [] self.eviction_policy = "LFU" ->
                            IF self.access_counts = <<>>
                            THEN Raise(th, "ValueError")
                            ELSE CallInvalidate(th, DMin(self.access_counts),
                                                "L37")
                       [] self.eviction_policy = "TTL" ->
                            [th EXCEPT
                                !.pc = "L58",
                                !.pending = SetToSeq(
                                    {key \in DOMAIN self.ttl :
                                        self.ttl[key] <= t})]
                       [] OTHER -> [th EXCEPT !.pc = "L37"]]
      [] th.pc = "L58" ->       \* for key in expired_keys
           [self |-> self,
            th   |-> IF th.pending = <<>>
                     THEN [th EXCEPT !.pc = "L37"]
                     ELSE CallInvalidate(
                              [th EXCEPT !.pending = Tail(@)],
                              Head(th.pending), "L58")]
      [] th.pc = "L37" ->       \* self.cache[key] = value
           [self |-> [self EXCEPT !.cache = MapPut(@, th.key, th.value)],
            th   |-> [th EXCEPT !.pc = "L38"]]
      [] th.pc = "L38" ->       \* the metadata of the key
           [self |-> set_metadata(self, th.key, th.ttl, t),
            th   |-> Return(th, None)]
      [] th.pc = "L62" ->       \* invalidate: if key in self.cache
           [self |-> self,
            th   |-> IF th.ikey \in DOMAIN self.cache
                     THEN [th EXCEPT !.pc = "L63"]
                     ELSE ReturnInvalidate(th)]
      [] th.pc = "L63" ->       \* del self.cache[key]
           IF th.ikey \in DOMAIN self.cache
           THEN [self |-> [self EXCEPT !.cache = MapDel(@, th.ikey)],
                 th   |-> [th EXCEPT !.pc = "L64"]]
           ELSE [self |-> self, th |-> Raise(th, "KeyError")]
      [] th.pc = "L64" ->       \* if key in self.access_times: del
           [self |-> [self EXCEPT !.access_times = DDel(@, th.ikey)],
            th   |-> [th EXCEPT !.pc = "L66"]]
      [] th.pc = "L66" ->       \* if key in self.access_counts: del
           [self |-> [self EXCEPT !.access_counts = DDel(@, th.ikey)],
            th   |-> [th EXCEPT !.pc = "L68"]]
      [] th.pc = "L68" ->       \* if key in self.ttl: del
           [self |-> [self EXCEPT !.ttl = MapDel(@, th.ikey)],
            th   |-> ReturnInvalidate(th)]
      [] OTHER -> [self |-> self, th |-> th]

\* the node after the calls set(keys[1], OldValue, ttl), set(keys[2], ...)
\* made one after the other at time 0
RECURSIVE Filled(_, _, _)
Filled(self, keys, ttl) ==
    IF keys = <<>> THEN self
    ELSE Filled(set(self, Head(keys), OldValue, ttl, 0, 0).self,
                Tail(keys), ttl)

Fillings == {<<>>, <<"A">>, <<"B">>, <<"A", "B">>, <<"B", "A">>}

\* one node of any policy, filled by sets made before the threads start;
\* the clock stands at any time from then on
InitConc ==
    /\ \E p \in Policies, m \in 1..Cardinality(ConcKeys), keys \in Fillings :
          \E ttl \in IF p = "TTL" THEN ConcTTLs ELSE {None} :
              nodes = [n \in {"node1"} |-> Filled(CacheNode(n, p, m), keys, ttl)]
    /\ now \in 0..MaxTime
    /\ last = NoCall("init")
    /\ calls = <<>>
    /\ dcache = NoCache
    /\ pubsub = PubSubSystem
    /\ invoked = <<>>
    /\ threads = [t \in Threads |-> Idle]

\* a thread that has made no call yet calls get(key)
ConcGet(t, key) ==
    /\ threads[t].pc = "idle"
    /\ threads' = [threads EXCEPT ![t] =
                      [Idle EXCEPT !.op = "get", !.key = key, !.pc = "L19"]]
    /\ UNCHANGED <<nodes, now, last, calls, dcache, pubsub, invoked>>

\* a thread that has made no call yet calls set(key, value, ttl)
ConcSet(t, key, value, ttl) ==
    /\ threads[t].pc = "idle"
    /\ threads' = [threads EXCEPT ![t] =
                      [Idle EXCEPT !.op = "set", !.key = key,
                                   !.value = value, !.ttl = ttl,
                                   !.pc = "L35"]]
    /\ UNCHANGED <<nodes, now, last, calls, dcache, pubsub, invoked>>

\* a thread that has made no call yet calls invalidate(key), itself or as
\* the publish of a message
ConcInvalidate(t, key) ==
    /\ threads[t].pc = "idle"
    /\ threads' = [threads EXCEPT ![t] =
                      CallInvalidate([Idle EXCEPT !.op = "invalidate",
                                                  !.key = key], key, "")]
    /\ UNCHANGED <<nodes, now, last, calls, dcache, pubsub, invoked>>

\* a thread executes its next statement
Step(t) ==
    /\ threads[t].pc \notin {"idle", "done"}
    /\ \E r \in {statement(nodes["node1"], threads[t], now)} :
          /\ \A e \in DOMAIN r.self.access_counts :
                 r.self.access_counts[e][2] <= MaxCount
          /\ nodes' = [nodes EXCEPT !["node1"] = r.self]
          /\ threads' = [threads EXCEPT ![t] = r.th]
    /\ UNCHANGED <<now, last, calls, dcache, pubsub, invoked>>

NextConc ==
    \/ \E t \in Threads, key \in ConcKeys : ConcGet(t, key)
    \/ \E t \in Threads, key \in ConcKeys :
          \E ttl \in IF nodes["node1"].eviction_policy = "TTL"
                     THEN ConcTTLs ELSE {None} :
              ConcSet(t, key, NewValue, ttl)
    \/ \E t \in Threads, key \in ConcKeys : ConcInvalidate(t, key)
    \/ \E t \in Threads : Step(t)

SpecConc == InitConc /\ [][NextConc]_vars

\* -------------------------------------------- publish against subscribe
\* PubSubSystem takes no lock either: a thread runs publish statement by
\* statement (the channel test of line 122, then one turn of the for loop
\* of line 123 per step, which reads the list it iterates anew at every
\* turn, as the list iterator does), while other callers subscribe nodes
\* and set keys.  snapshot is the subscriber list at the moment publish was
\* called; invoked collects the nodes publish has called.

NotPublishing ==
    [op |-> "", key |-> "", pc |-> "idle", i |-> 0, snapshot |-> <<>>]

\* the subscriber list of a channel, empty when the channel does not exist
ListOf(self, channel) ==
    IF channel \in DOMAIN self.subscribers THEN self.subscribers[channel]
    ELSE <<>>

InitPub ==
    /\ \E m \in 1..Cardinality(BusKeys) :
          /\ nodes = HeapOf(BusNodes, m)
          /\ dcache = DistributedCache(BusNodes, HeapOf(BusNodes, m))
    /\ now = 0
    /\ last = NoCall("init")
    /\ calls = <<>>
    /\ pubsub = PubSubSystem
    /\ invoked = <<>>
    /\ threads = [t \in {"pub"} |-> NotPublishing]

\* the thread calls publish(channel, message)
PubCall(channel, message) ==
    /\ threads["pub"].pc \in {"idle", "done"}
    /\ threads' = [threads EXCEPT !["pub"] =
                      [op |-> "publish", key |-> message, pc |-> "L122",
                       i |-> 0, snapshot |-> ListOf(pubsub, channel)]]
    /\ invoked' = <<>>
    /\ UNCHANGED <<nodes, now, last, calls, dcache, pubsub>>

\* line 122: if channel in self.subscribers
PubTest(channel) ==
    /\ threads["pub"].pc = "L122"
    /\ threads' = [threads EXCEPT !["pub"] =
                      IF channel \in DOMAIN pubsub.subscribers
                      THEN [@ EXCEPT !.pc = "L123", !.i = 1]
                      ELSE [@ EXCEPT !.pc = "done"]]
    /\ UNCHANGED <<nodes, now, last, calls, dcache, pubsub, invoked>>

\* lines 123-124: one turn of the loop, or its end
PubLoop(channel) ==
    /\ threads["pub"].pc = "L123"
    /\ LET th == threads["pub"]
           subscribed == pubsub.subscribers[channel]
       IN  IF th.i <= Len(subscribed)
           THEN /\ nodes' = [nodes EXCEPT ![subscribed[th.i]] =
                                invalidate(@, th.key)]
                /\ invoked' = Append(invoked, subscribed[th.i])
                /\ threads' = [threads EXCEPT !["pub"].i = th.i + 1]
           ELSE /\ threads' = [threads EXCEPT !["pub"].pc = "done"]
                /\ UNCHANGED <<nodes, invoked>>
    /\ UNCHANGED <<now, last, calls, dcache, pubsub>>

\* another caller subscribes a node
PubSubscribe(channel, n) ==
    /\ Len(ListOf(pubsub, channel)) < MaxSubs
    /\ pubsub' = subscribe(pubsub, channel, n)
    /\ UNCHANGED <<nodes, now, last, calls, dcache, invoked, threads>>

\* another caller sets a key on a node
PubSet(n, key, value) ==
    /\ nodes' = [nodes EXCEPT ![n] = set(@, key, value, None, now, now).self]
    /\ UNCHANGED <<now, last, calls, dcache, pubsub, invoked, threads>>

NextPub ==
    \/ \E key \in BusKeys : PubCall(Channel, key)
    \/ PubTest(Channel)
    \/ PubLoop(Channel)
    \/ \E n \in DOMAIN nodes : PubSubscribe(Channel, n)
    \/ \E n \in DOMAIN nodes, key \in BusKeys, value \in BusValues :
           PubSet(n, key, value)

SpecPub == InitPub /\ [][NextPub]_vars

Size(self) == Cardinality(DOMAIN self.cache)

TypeOK ==
    /\ now \in 0..MaxTime
    /\ \A n \in DOMAIN nodes :
          /\ DOMAIN nodes[n].cache \subseteq Keys \cup DistKeys
          /\ nodes[n].eviction_policy \in Policies

\* ---------------------------------------------------------------- claims

\* C1: on an LRU or LFU node with max_size >= 1 the number of stored
\* entries is at most max_size after every call (set, get, invalidate).
C1_CapacityBound ==
    \A n \in DOMAIN nodes :
        (nodes[n].eviction_policy \in {"LRU", "LFU"} /\ nodes[n].max_size >= 1)
            => Size(nodes[n]) <= nodes[n].max_size

\* a set of a new key on a full node of capacity 2 has returned
C1_Witness ==
    \E n \in DOMAIN nodes :
        /\ nodes[n].eviction_policy \in {"LRU", "LFU"}
        /\ nodes[n].max_size = 2
        /\ calls = LRUScript
        /\ last.op = "set" /\ ~last.had /\ last.exc = ""
        /\ Size(nodes[n]) = 2

\* C2: after every call the key set of each metadata map (access_times,
\* access_counts, ttl) is a subset of the key set of cache.
C2_MetadataSubset ==
    \A n \in DOMAIN nodes :
        /\ DKeys(nodes[n].access_times) \subseteq DOMAIN nodes[n].cache
        /\ DKeys(nodes[n].access_counts) \subseteq DOMAIN nodes[n].cache
        /\ DOMAIN nodes[n].ttl \subseteq DOMAIN nodes[n].cache

\* an invalidate has removed a stored key while another key keeps an expiry
C2_Witness ==
    \E n \in DOMAIN nodes :
        /\ last.op = "invalidate" /\ last.node = n /\ last.had
        /\ last.key \notin DOMAIN nodes[n].cache
        /\ DOMAIN nodes[n].ttl /= {}

\* C3: LRU eviction order, the documented scenario: on an LRU node of
\* capacity 2, after set(A,1), set(B,2), get(A), set(C,3) the evicted key is
\* B: get(A) = 1, get(B) = absent, get(C) = 3.
C3_LRUScenario ==
    \A n \in DOMAIN nodes :
        (/\ nodes[n].eviction_policy = "LRU"
         /\ nodes[n].max_size = 2
         /\ calls = LRUScript)
            => /\ get(nodes[n], "A", now).ret = 1
               /\ get(nodes[n], "B", now).ret = None
               /\ get(nodes[n], "C", now).ret = 3

Count(self, key) == DGet(self.access_counts, key)

\* C4: on an LFU node a set of a new key on a full node evicts exactly one
\* stored key, one of smallest access counter; the counter is 1 after a set
\* and grows by one with each successful get; and after the documented
\* scenario (capacity 2: set(A,1), set(B,2), get(A), get(A), set(C,3)) B is
\* evicted and get(A) = 1.
C4_LFUEviction ==
    [][\A n \in DOMAIN nodes :
          LET s == nodes[n]
              t == nodes'[n]
          IN  s.eviction_policy = "LFU" =>
                /\ (/\ last'.op = "set" /\ last'.node = n /\ ~last'.had
                    /\ s.max_size >= 1 /\ Size(s) = s.max_size)
                       => \E victim \in DOMAIN s.cache :
                             /\ DOMAIN t.cache =
                                    (DOMAIN s.cache \ {victim}) \cup {last'.key}
                             /\ \A k \in DOMAIN s.cache :
                                    Count(s, victim) <= Count(s, k)
                /\ (last'.op = "set" /\ last'.node = n /\ last'.exc = "")
                       => Count(t, last'.key) = 1
                /\ (last'.op = "get" /\ last'.node = n /\ last'.had)
                       => Count(t, last'.key) = Count(s, last'.key) + 1
                /\ (calls' = LFUScript /\ s.max_size = 2)
                       => /\ "B" \notin DOMAIN t.cache
                          /\ get(t, "A", now').ret = 1]_vars

\* the LFU scenario has run to its end on an LFU node of capacity 2
C4_Witness ==
    \E n \in DOMAIN nodes :
        /\ nodes[n].eviction_policy = "LFU"
        /\ nodes[n].max_size = 2
        /\ calls = LFUScript
        /\ DOMAIN nodes[n].cache = {"A", "C"}

\* m2 is m1 without key: same other keys, same values
MapWithout(m1, m2, key) ==
    /\ DOMAIN m2 = DOMAIN m1 \ {key}
    /\ \A k \in DOMAIN m2 : m2[k] = m1[k]

\* d2 is d1 without key: the other items, in the same order
DictWithout(d1, d2, key) ==
    /\ DKeys(d2) = DKeys(d1) \ {key}
    /\ Len(d2) = Cardinality(DKeys(d2))
    /\ \A i, j \in DOMAIN d1 :
          (i < j /\ d1[i][1] /= key /\ d1[j][1] /= key)
              => \E a, b \in DOMAIN d2 : a < b /\ d2[a] = d1[i] /\ d2[b] = d1[j]
    /\ \A i \in DOMAIN d1 :
          d1[i][1] /= key => \E a \in DOMAIN d2 : d2[a] = d1[i]

\* C5: on a TTL node, get of a stored key that carries an expiry returns the
\* stored value while now < expiry and returns absent when expiry <= now,
\* the instant now = expiry included.
C5_TTLExpiry ==
    [][\A n \in DOMAIN nodes :
          LET s == nodes[n]
              k == last'.key
          IN  (/\ s.eviction_policy = "TTL"
               /\ last'.op = "get" /\ last'.node = n
               /\ k \in DOMAIN s.cache /\ k \in DOMAIN s.ttl)
                  => IF now < s.ttl[k]
                     THEN last'.ret = s.cache[k]
                     ELSE last'.ret = None]_vars

\* C6: on a TTL node, a get that finds its key expired (the key was stored
\* and absent is returned) removes the key's entry and its expiry and
\* nothing else, so the size drops by one; and a key that is not stored
\* stays not stored, every get of it returning absent, until a set of it.
C6_LazyExpiry ==
    [][\A n \in DOMAIN nodes :
          LET s == nodes[n]
              t == nodes'[n]
          IN  s.eviction_policy = "TTL" =>
                /\ (/\ last'.op = "get" /\ last'.node = n
                    /\ last'.had /\ last'.ret = None)
                       => /\ last'.key \in DOMAIN s.ttl
                          /\ MapWithout(s.cache, t.cache, last'.key)
                          /\ MapWithout(s.ttl, t.ttl, last'.key)
                          /\ Size(t) = Size(s) - 1
                          /\ last'.exc = ""
                /\ \A k \in Keys :
                      (/\ k \notin DOMAIN s.cache
                       /\ ~(last'.op = "set" /\ last'.key = k))
                         => /\ k \notin DOMAIN t.cache
                            /\ k \notin DOMAIN t.ttl
                            /\ (last'.op = "get" /\ last'.key = k)
                                  => last'.ret = None]_vars

\* a get has found its key expired while another key stays stored
C6_Witness ==
    \E n \in DOMAIN nodes :
        /\ nodes[n].eviction_policy = "TTL"
        /\ last.op = "get" /\ last.node = n /\ last.had /\ last.ret = None
        /\ last.key \notin DOMAIN nodes[n].cache
        /\ Size(nodes[n]) >= 1

\* C7: set(k, v) of a stored key k on a node holding exactly max_size
\* entries evicts nothing: the stored key set is unchanged and every other
\* key keeps its value and its metadata.
C7_OverwriteNoEviction ==
    [][\A n \in DOMAIN nodes :
          LET s == nodes[n]
              t == nodes'[n]
              k == last'.key
          IN  (/\ last'.op = "set" /\ last'.node = n /\ last'.had
               /\ Size(s) = s.max_size)
                  => /\ DOMAIN t.cache = DOMAIN s.cache
                     /\ \A j \in DOMAIN s.cache \ {k} : t.cache[j] = s.cache[j]
                     /\ DDel(t.access_times, k) = DDel(s.access_times, k)
                     /\ DDel(t.access_counts, k) = DDel(s.access_counts, k)
                     /\ MapDel(t.ttl, k) = MapDel(s.ttl, k)]_vars

\* C8: on a TTL node, after set(k, v) without a ttl the key carries no
\* expiry (also when it was stored with one before), and after
\* set(k, v, ttl) its expiry is the time of the write plus ttl.
C8_SetInitializesExpiry ==
    [][\A n \in DOMAIN nodes :
          nodes[n].eviction_policy = "TTL" =>
             \A k \in Keys, v \in Values :
                /\ Set(n, k, v, None) => k \notin DOMAIN nodes'[n].ttl
                /\ \A ttl \in 0..MaxTTL :
                      Set(n, k, v, ttl) =>
                         /\ k \in DOMAIN nodes'[n].ttl
                         /\ nodes'[n].ttl[k] = now' + ttl]_vars

\* C9: invalidate(k) removes k's entry and k's items of the three metadata
\* maps and changes nothing else; it raises nothing; and when k is not
\* stored it leaves the whole node unchanged.
C9_Invalidate ==
    [][\A n \in DOMAIN nodes :
          LET s == nodes[n]
              t == nodes'[n]
              k == last'.key
          IN  (last'.op = "invalidate" /\ last'.node = n)
                  => /\ last'.exc = ""
                     /\ MapWithout(s.cache, t.cache, k)
                     /\ DictWithout(s.access_times, t.access_times, k)
                     /\ DictWithout(s.access_counts, t.access_counts, k)
                     /\ MapWithout(s.ttl, t.ttl, k)
                     /\ t.max_size = s.max_size
                     /\ t.eviction_policy = s.eviction_policy
                     /\ t.node_id = s.node_id
                     /\ now' = now
                     /\ (k \notin DOMAIN s.cache => t = s)]_vars

\* an invalidate has removed a stored key of an LFU node that stores
\* another key
C9_Witness ==
    \E n \in DOMAIN nodes :
        /\ nodes[n].eviction_policy = "LFU"
        /\ last.op = "invalidate" /\ last.node = n /\ last.had
        /\ last.key \notin DOMAIN nodes[n].cache
        /\ nodes[n].access_counts /= <<>>

\* C10: get and invalidate of a key that is not stored return absent and
\* raise nothing, under every policy, and leave the node unchanged.
C10_MissNoError ==
    [][\A n \in DOMAIN nodes :
          (/\ last'.op \in {"get", "invalidate"} /\ last'.node = n
           /\ ~last'.had)
              => /\ last'.ret = None
                 /\ last'.exc = ""
                 /\ nodes'[n] = nodes[n]]_vars

\* a get of a key that is not stored has returned on a non-empty node
C10_Witness ==
    \E n \in DOMAIN nodes :
        /\ last.op = "get" /\ last.node = n /\ ~last.had
        /\ last.ret = None
        /\ Size(nodes[n]) >= 1

DistOps == {"dc_get", "dc_set", "dc_invalidate"}

\* the ring points at or after hash_key
PointsFrom(self, hash_key) == {p \in DOMAIN self.node_map : p >= hash_key}

Least(points) == CHOOSE p \in points : \A q \in points : p <= q

\* C11: on a non-empty ring, _get_node(key) is the node of the smallest ring
\* point that is >= _hash(key), and the node of the smallest ring point of
\* all when no point is that large; every DistributedCache call ran on it.
C11_Successor ==
    dcache.node_map /= EmptyMap =>
        /\ \A key \in DistKeys :
              LET ring == DOMAIN dcache.node_map
                  from == PointsFrom(dcache, _hash(key))
              IN  _get_node(dcache, key) =
                      [node |-> dcache.node_map[IF from /= {} THEN Least(from)
                                                ELSE Least(ring)],
                       exc  |-> ""]
        /\ last.op \in DistOps => last.node = _get_node(dcache, last.key).node

\* on the ring of three nodes a call has wrapped around (B lies above every
\* point) and a call has hit a ring point exactly
C11_Witness ==
    /\ Len(dcache.nodes) = 3
    /\ PointsFrom(dcache, _hash("B")) = {}
    /\ _hash("node1_1") \in DOMAIN dcache.node_map
    /\ "B" \in DOMAIN nodes["node3"].cache
    /\ "node1_1" \in DOMAIN nodes["node1"].cache
    /\ last.op = "dc_get" /\ last.key = "B" /\ last.node = "node3"

\* C12: after every call (get, set, invalidate, subscribe, publish, a
\* node's own set) nodes and node_map of the DistributedCache are what the
\* constructor built, and _get_node gives for the key of the call the node
\* the call ran on, whatever the nodes store by then.
C12_RingImmutable ==
    /\ dcache = DistributedCache(BusNodes, nodes)
    /\ \A key \in BusKeys :
          _get_node(dcache, key) =
              _get_node(DistributedCache(BusNodes, HeapOf(BusNodes, 1)), key)
    /\ last.op \in DistOps => _get_node(dcache, last.key).node = last.node

\* nodes store entries, a node is subscribed and a publish has removed a key
C12_Witness ==
    /\ last.op = "publish" /\ invoked /= <<>> /\ last.had
    /\ \E n \in DOMAIN nodes : nodes[n].cache /= EmptyMap
    /\ Cardinality(DOMAIN dcache.node_map) = VirtualNodes * Len(BusNodes)

\* C13: a DistributedCache.set(K, v) without ttl that is directly followed
\* by DistributedCache.get(K) makes that get return v, on the same node.
C13_ReadYourWrite ==
    [][(/\ last.op = "dc_set" /\ last.exc = "" /\ last.ttl = None
        /\ last'.op = "dc_get" /\ last'.key = last.key)
          => (last'.ret = last.value /\ last'.node = last.node)]_vars

\* C14: when publish(channel, K) has returned, no node subscribed to the
\* channel stores K or has metadata of K, and a DistributedCache.get(K)
\* whose node is subscribed returns None.
C14_PublishInvalidates ==
    (last.op = "publish" /\ Channel \in DOMAIN pubsub.subscribers) =>
        \A i \in DOMAIN pubsub.subscribers[Channel] :
            LET n == pubsub.subscribers[Channel][i]
            IN  /\ last.key \notin DOMAIN nodes[n].cache
                /\ last.key \notin DKeys(nodes[n].access_times)
                /\ last.key \notin DKeys(nodes[n].access_counts)
                /\ last.key \notin DOMAIN nodes[n].ttl
                /\ _get_node(dcache, last.key).node = n
                      => get(nodes[n], last.key, now).ret = None

\* both nodes are subscribed, both stored K, and publish has called both
C14_Witness ==
    /\ last.op = "publish" /\ last.had
    /\ {invoked[i] : i \in DOMAIN invoked} = {"node2", "node3"}

\* C15: publish(channel, K) calls invalidate(K) once per entry of the
\* channel's subscriber list, in list order, and on no node when the
\* channel has no list; subscribe appends the node to the list, also when
\* the node is in the list already.
C15_PublishOrder ==
    [][/\ last'.op = "publish" =>
             invoked' = IF Channel \in DOMAIN pubsub.subscribers
                        THEN pubsub.subscribers[Channel] ELSE <<>>
       /\ last'.op = "subscribe" =>
             pubsub'.subscribers[Channel] =
                 Append(IF Channel \in DOMAIN pubsub.subscribers
                        THEN pubsub.subscribers[Channel] ELSE <<>>,
                        last'.node)]_vars

\* a node subscribed twice has been called twice by one publish
C15_Witness ==
    /\ last.op = "publish"
    /\ Len(invoked) = 2 /\ invoked[1] = invoked[2]

\* the metadata the policy of the node keeps for a key
HasMetadata(self, key) ==
    \/ key \in DKeys(self.access_times)
    \/ key \in DKeys(self.access_counts)
    \/ key \in DOMAIN self.ttl

\* C16: while threads call only set on an LRU or LFU node that started
\* within its capacity, the node never stores more than max_size entries,
\* at whatever statement the threads stand.
C16_AtomicSet ==
    \A n \in DOMAIN nodes :
        (/\ nodes[n].eviction_policy \in {"LRU", "LFU"}
         /\ threads /= NoThreads
         /\ \A t \in DOMAIN threads : threads[t].op \in {"", "set"})
            => Size(nodes[n]) <= nodes[n].max_size

\* C17: a get(k) that ran while the only other call was invalidate(k) has
\* ended without an exception, with the value stored for k or with None.
C17_GetNeverFails ==
    \A t \in DOMAIN threads, u \in DOMAIN threads :
        (/\ t /= u
         /\ threads[t].op = "get" /\ threads[t].pc = "done"
         /\ threads[u].op = "invalidate" /\ threads[u].key = threads[t].key)
            => /\ threads[t].exc = ""
               /\ threads[t].ret \in {None, OldValue}

\* C18: when set(k, v) and invalidate(k), the only two calls, have both
\* ended, the node either stores v for k with the metadata of its policy
\* (access time, count, or the expiry of the ttl given) or stores neither k
\* nor any metadata of k.
C18_SetInvalidateOutcome ==
    \A t \in DOMAIN threads, u \in DOMAIN threads :
        (/\ threads[t].op = "set" /\ threads[t].pc = "done"
         /\ threads[u].op = "invalidate" /\ threads[u].pc = "done"
         /\ threads[u].key = threads[t].key)
            => LET self == nodes["node1"]
                   k    == threads[t].key
               IN  \/ /\ k \in DOMAIN self.cache
                      /\ self.cache[k] = threads[t].value
                      /\ self.eviction_policy = "LRU"
                            => k \in DKeys(self.access_times)
                      /\ self.eviction_policy = "LFU"
                            => k \in DKeys(self.access_counts)
                      /\ (self.eviction_policy = "TTL"
                              /\ threads[t].ttl /= None)
                            => k \in DOMAIN self.ttl
                   \/ /\ k \notin DOMAIN self.cache
                      /\ ~HasMetadata(self, k)

\* C19: on a TTL node that stores max_size entries or more, none of them
\* with an expiry <= the clock, a set of a new key removes nothing and the
\* node stores one entry more.
C19_TTLOverflow ==
    [][\A n \in DOMAIN nodes :
          (/\ nodes[n].eviction_policy = "TTL"
           /\ Size(nodes[n]) >= nodes[n].max_size
           /\ \A k \in DOMAIN nodes[n].ttl : nodes[n].ttl[k] > now
           /\ last'.op = "set" /\ last'.node = n /\ ~last'.had)
             => /\ DOMAIN nodes'[n].cache =
                       DOMAIN nodes[n].cache \cup {last'.key}
                /\ Size(nodes'[n]) = Size(nodes[n]) + 1
                /\ Size(nodes'[n]) > nodes[n].max_size
                /\ \A k \in DOMAIN nodes[n].cache :
                       nodes'[n].cache[k] = nodes[n].cache[k]]_vars

\* a TTL node of capacity 1 stores two entries after a set of a new key,
\* one of them with an expiry that has not passed
C19_Witness ==
    \E n \in DOMAIN nodes :
        /\ nodes[n].eviction_policy = "TTL" /\ nodes[n].max_size = 1
        /\ Size(nodes[n]) = 2
        /\ \E k \in DOMAIN nodes[n].ttl : nodes[n].ttl[k] > now
        /\ last.op = "set" /\ ~last.had

\* C20: on a DistributedCache built from an empty node list, get, set and
\* invalidate each end with the IndexError of _get_node, which returns no
\* node, and change nothing.
C20_EmptyRing ==
    [][(dcache.node_map = EmptyMap /\ last'.op \in DistOps)
          => /\ _get_node(dcache, last'.key) =
                    [node |-> "", exc |-> "IndexError"]
             /\ last'.exc = "IndexError" /\ last'.ret = None
             /\ last'.node = ""
             /\ UNCHANGED <<nodes, now, calls, dcache, pubsub>>]_vars

\* a set on the empty ring has raised
C20_Witness ==
    /\ dcache.nodes = <<>> /\ nodes = EmptyMap
    /\ last.op = "dc_set" /\ last.exc = "IndexError"

\* C21: a CacheNode with max_size <= 0 and a DistributedCache over an empty
\* node list are refused by their constructors, so a call that raises is
\* never a call on such an object: the node it ran on has max_size >= 1 and
\* the DistributedCache it went through has a node.
C21_FailFast ==
    (last.op /= "init" /\ last.exc /= "") =>
        /\ \A n \in DOMAIN nodes : nodes[n].max_size >= 1
        /\ last.op \in DistOps => dcache.nodes /= <<>>

\* C22: the ring of a DistributedCache has VirtualNodes points for each
\* node of its list, also when points of two nodes have the same hash.
C22_RingKeepsCollisions ==
    Cardinality(DOMAIN dcache.node_map) = VirtualNodes * Len(dcache.nodes)

\* a get of the thread is inside its lazy expiry (lines 23, 62-69)
InLazyExpiry(th) == th.op = "get" /\ th.back = "L24"

\* a set of the thread is inside the sweep of _evict (lines 58-59, 62-69)
InSweep(th) == th.op = "set" /\ (th.pc = "L58" \/ th.back = "L58")

\* C23: on a TTL node a get is never inside its lazy expiry while a set is
\* inside its sweep, and when a get and a set, the only two calls, have
\* ended, neither has raised and every key of ttl is a stored key.
C23_ExpiryAndSweepExclusive ==
    \A t \in DOMAIN threads, u \in DOMAIN threads :
        (/\ nodes["node1"].eviction_policy = "TTL"
         /\ threads[t].op = "get" /\ threads[u].op = "set")
            => /\ ~(InLazyExpiry(threads[t]) /\ InSweep(threads[u]))
               /\ (threads[t].pc = "done" /\ threads[u].pc = "done")
                     => /\ threads[t].exc = "" /\ threads[u].exc = ""
                        /\ DOMAIN nodes["node1"].ttl
                               \subseteq DOMAIN nodes["node1"].cache

\* the keys of a node whose expiry is at or before time t
Due(self, t) == {k \in DOMAIN self.ttl : self.ttl[k] <= t}

\* C24: on a TTL node a set that finds len(cache) >= max_size removes the
\* stored keys whose expiry is <= the clock, all of them, and no key with a
\* later expiry or without one; then it stores its key.
C24_TTLSweep ==
    [][\A n \in DOMAIN nodes :
          (/\ nodes[n].eviction_policy = "TTL"
           /\ last'.op = "set" /\ last'.node = n
           /\ Size(nodes[n]) >= nodes[n].max_size)
             => /\ last'.evicted = Due(nodes[n], now) \cap DOMAIN nodes[n].cache
                /\ DOMAIN nodes'[n].cache =
                       (DOMAIN nodes[n].cache \ Due(nodes[n], now))
                           \cup {last'.key}
                /\ \A k \in DOMAIN nodes[n].cache \ Due(nodes[n], now) :
                       /\ k /= last'.key => nodes'[n].cache[k] = nodes[n].cache[k]
                       /\ (k /= last'.key /\ k \in DOMAIN nodes[n].ttl)
                             => /\ k \in DOMAIN nodes'[n].ttl
                                /\ nodes'[n].ttl[k] = nodes[n].ttl[k]]_vars

\* a set on a TTL node has removed two expired keys at once
C24_Witness ==
    \E n \in DOMAIN nodes :
        /\ nodes[n].eviction_policy = "TTL"
        /\ last.op = "set" /\ last.node = n
        /\ Cardinality(last.evicted) = 2

\* C25: on an LRU node the keys of access_times, on an LFU node the keys of
\* access_counts, are the stored keys after every call; and a set that
\* finds a node of max_size >= 1 full raises nothing and removes exactly
\* one key, a key that was stored.
C25_MetadataKeys ==
    [][\A n \in DOMAIN nodes :
          /\ nodes'[n].eviction_policy = "LRU"
                => DKeys(nodes'[n].access_times) = DOMAIN nodes'[n].cache
          /\ nodes'[n].eviction_policy = "LFU"
                => DKeys(nodes'[n].access_counts) = DOMAIN nodes'[n].cache
          /\ (/\ nodes[n].eviction_policy \in {"LRU", "LFU"}
              /\ nodes[n].max_size >= 1
              /\ Size(nodes[n]) >= nodes[n].max_size
              /\ last'.op = "set" /\ last'.node = n)
                => /\ last'.exc = ""
                   /\ Cardinality(last'.evicted) = 1
                   /\ last'.evicted \subseteq DOMAIN nodes[n].cache
                   /\ DOMAIN nodes'[n].cache =
                          (DOMAIN nodes[n].cache \ last'.evicted)
                              \cup {last'.key}]_vars

\* a set of a new key on a full LRU node of capacity 2 has evicted one key
C25_Witness ==
    \E n \in DOMAIN nodes :
        /\ nodes[n].eviction_policy = "LRU" /\ nodes[n].max_size = 2
        /\ last.op = "set" /\ last.node = n /\ ~last.had
        /\ Cardinality(last.evicted) = 1
        /\ DKeys(nodes[n].access_times) = DOMAIN nodes[n].cache
        /\ Size(nodes[n]) = 2

\* C26: when nodes are written through the DistributedCache only, a stored
\* key is stored on the node _get_node gives for it and on no other node.
C26_SingleOwner ==
    \A n \in DOMAIN nodes :
        \A key \in DOMAIN nodes[n].cache :
            _get_node(dcache, key) = [node |-> n, exc |-> ""]

\* the three nodes of the ring each store the key routed to them
C26_Witness ==
    /\ Len(dcache.nodes) = 3
    /\ \A n \in DOMAIN nodes : nodes[n].cache /= EmptyMap
    /\ last.op = "dc_set" /\ last.exc = ""

\* C27: a DistributedCache.get, set or invalidate of a key leaves every
\* node other than _get_node(key) as it was, and leaves the ring and the
\* subscriber table as they were.
C27_RoutedCallFrame ==
    [][last'.op \in DistOps =>
          /\ \A n \in DOMAIN nodes :
                 n /= _get_node(dcache, last'.key).node
                     => nodes'[n] = nodes[n]
          /\ dcache' = dcache
          /\ pubsub' = pubsub]_vars

\* an invalidate through the ring has removed the key from its node while
\* the other node, which is subscribed, still stores the same key
C27_Witness ==
    /\ last.op = "dc_invalidate" /\ last.had
    /\ \E n \in DOMAIN nodes :
          /\ n /= last.node
          /\ last.key \in DOMAIN nodes[n].cache
          /\ Channel \in DOMAIN pubsub.subscribers
          /\ \E i \in DOMAIN pubsub.subscribers[Channel] :
                 pubsub.subscribers[Channel][i] = n

\* the nodes subscribed to the channel
SubscribedTo(channel) ==
    IF channel \in DOMAIN pubsub.subscribers
    THEN {pubsub.subscribers[channel][i] :
              i \in DOMAIN pubsub.subscribers[channel]}
    ELSE {}

\* C28: publish(channel, K) leaves the subscriber table, the ring and the
\* clock as they were, leaves every node not subscribed to the channel as
\* it was, and on a subscribed node removes K and the metadata of K and
\* nothing else; with no subscriber no node changes and the channel is not
\* created.
C28_PublishFrame ==
    [][last'.op = "publish" =>
          /\ pubsub' = pubsub /\ dcache' = dcache /\ now' = now
          /\ SubscribedTo(Channel) = {} => nodes' = nodes
          /\ \A n \in DOMAIN nodes :
                LET s == nodes[n]
                    t == nodes'[n]
                    k == last'.key
                IN  IF n \in SubscribedTo(Channel)
                    THEN /\ MapWithout(s.cache, t.cache, k)
                         /\ DictWithout(s.access_times, t.access_times, k)
                         /\ DictWithout(s.access_counts, t.access_counts, k)
                         /\ MapWithout(s.ttl, t.ttl, k)
                         /\ k \notin DOMAIN s.cache => t = s
                    ELSE t = s]_vars

\* a publish has removed K from the one subscribed node, which keeps its
\* other key, while the node that is not subscribed keeps K
C28_Witness ==
    /\ last.op = "publish" /\ last.had
    /\ \E n \in DOMAIN nodes, m \in DOMAIN nodes :
          /\ SubscribedTo(Channel) = {n} /\ m /= n
          /\ nodes[n].cache /= EmptyMap
          /\ last.key \in DOMAIN nodes[m].cache

\* C29: on an LFU node a set of k that raises nothing leaves the counter of
\* k at 1, a get of k that returns a value raises the counter of k by 1,
\* and the counter of every other key that stays stored is unchanged.
C29_LFUCounter ==
    [][\A n \in DOMAIN nodes :
          (nodes[n].eviction_policy = "LFU" /\ last'.node = n)
             => /\ (last'.op = "set" /\ last'.exc = "")
                      => Count(nodes'[n], last'.key) = 1
                /\ (last'.op = "get" /\ last'.ret /= None)
                      => Count(nodes'[n], last'.key) =
                             Count(nodes[n], last'.key) + 1
                /\ \A k \in DOMAIN nodes[n].cache \cap DOMAIN nodes'[n].cache :
                      (k /= last'.key \/ last'.op \notin {"set", "get"})
                          => Count(nodes'[n], k) = Count(nodes[n], k)]_vars

\* set(A), get(A), set(A) on an LFU node: the counter 2 of A is back at 1
C29_Witness ==
    \E n \in DOMAIN nodes :
        /\ nodes[n].eviction_policy = "LFU"
        /\ calls = OverwriteScript
        /\ last.op = "set" /\ last.had /\ last.exc = ""
        /\ Count(nodes[n], "A") = 1

\* C30: on a TTL node a get of a stored key that has no expiry, or an
\* expiry later than the clock, returns the stored value and changes
\* neither the expiry of the key nor anything else of the node.
C30_ReadKeepsExpiry ==
    [][\A n \in DOMAIN nodes :
          LET s == nodes[n]
              k == last'.key
          IN  (/\ s.eviction_policy = "TTL"
               /\ last'.op = "get" /\ last'.node = n
               /\ k \in DOMAIN s.cache
               /\ k \in DOMAIN s.ttl => now < s.ttl[k])
                 => /\ last'.ret = s.cache[k] /\ last'.exc = ""
                    /\ nodes'[n].ttl = s.ttl
                    /\ nodes'[n] = s]_vars

\* a key with an expiry that has not passed has been read
C30_Witness ==
    \E n \in DOMAIN nodes :
        /\ nodes[n].eviction_policy = "TTL"
        /\ last.op = "get" /\ last.node = n /\ last.ret /= None
        /\ last.key \in DOMAIN nodes[n].ttl
        /\ now < nodes[n].ttl[last.key]

\* the stored keys of a node whose expiry the clock t has passed
Passed(self, t) == {k \in DOMAIN self.cache \cap DOMAIN self.ttl :
                       self.ttl[k] < t}

\* C31: a step that only advances the clock changes no node; and a stored
\* key whose expiry has passed stays stored, with its expiry, through every
\* call except a get of that key, a set that finds the node full, and a
\* call that removes it by name (invalidate of that key).
C31_NoBackgroundExpiry ==
    [][\A n \in DOMAIN nodes :
          /\ last'.op = "tick" => nodes'[n] = nodes[n]
          /\ \A k \in Passed(nodes[n], now) :
                (/\ ~(last'.op = "get" /\ last'.key = k)
                 /\ ~(last'.op = "set" /\ Size(nodes[n]) >= nodes[n].max_size)
                 /\ ~(last'.op = "invalidate" /\ last'.key = k))
                    => /\ k \in DOMAIN nodes'[n].cache
                       /\ \/ last'.op = "set" /\ last'.key = k
                          \/ /\ nodes'[n].cache[k] = nodes[n].cache[k]
                             /\ k \in DOMAIN nodes'[n].ttl
                             /\ nodes'[n].ttl[k] = nodes[n].ttl[k]]_vars

\* the clock has moved past the expiry of a stored key and then a get of
\* another key has run: the expired key is still stored
C31_Witness ==
    \E n \in DOMAIN nodes :
        /\ nodes[n].eviction_policy = "TTL"
        /\ last.op = "get" /\ last.node = n
        /\ Passed(nodes[n], now) /= {}
        /\ last.key \notin Passed(nodes[n], now)

\* C32: the clock never goes back; on a TTL node a get of a stored key
\* whose expiry the clock has passed returns None, now and at every later
\* time; and such a key keeps its expiry while it stays stored, unless a
\* set of that key runs.
C32_ExpiredStaysUnreadable ==
    [][/\ now' >= now
       /\ \A n \in DOMAIN nodes :
             nodes[n].eviction_policy = "TTL" =>
                 \A k \in Passed(nodes[n], now) :
                     /\ \A t \in now..MaxTime :
                            get(nodes[n], k, t).ret = None
                     /\ (last'.op = "get" /\ last'.key = k)
                            => last'.ret = None
                     /\ (k \in DOMAIN nodes'[n].cache
                            /\ ~(last'.op = "set" /\ last'.key = k))
                            => k \in Passed(nodes'[n], now')]_vars

\* a get of an expired key has returned None while another key, also
\* expired, is still stored
C32_Witness ==
    \E n \in DOMAIN nodes :
        /\ nodes[n].eviction_policy = "TTL"
        /\ last.op = "get" /\ last.node = n /\ last.had /\ last.ret = None
        /\ last.key \notin DOMAIN nodes[n].cache
        /\ Passed(nodes[n], now) /= {}

\* the key _evict picks from metadata d: the first in stored order among
\* those of smallest value
FirstOfSmallest(d, k) ==
    \E i \in DOMAIN d :
        /\ d[i][1] = k
        /\ \A j \in DOMAIN d : d[i][2] <= d[j][2]
        /\ \A j \in DOMAIN d : j < i => d[j][2] > d[i][2]

\* C34: on a full LRU (LFU) node of max_size >= 1 the key a set evicts is,
\* among the keys of smallest access time (counter), the one that comes
\* first in the stored order of access_times (access_counts), and the other
\* keys keep their order.
C34_TieBreak ==
    [][\A n \in DOMAIN nodes :
          LET s == nodes[n]
              d == IF s.eviction_policy = "LRU" THEN s.access_times
                   ELSE s.access_counts
              e == IF s.eviction_policy = "LRU" THEN nodes'[n].access_times
                   ELSE nodes'[n].access_counts
          IN  (/\ s.eviction_policy \in {"LRU", "LFU"}
               /\ s.max_size >= 1 /\ Size(s) >= s.max_size
               /\ last'.op = "set" /\ last'.node = n)
                 => \E k \in DKeys(d) :
                       /\ FirstOfSmallest(d, k)
                       /\ last'.evicted = {k}
                       /\ \A a, b \in DKeys(d) \ {k, last'.key} :
                              \A i, j \in DOMAIN d :
                                  (d[i][1] = a /\ d[j][1] = b /\ i < j)
                                     => \E x, y \in DOMAIN e :
                                           /\ e[x][1] = a /\ e[y][1] = b
                                           /\ x < y]_vars

\* set A, set B, get A, set C on an LRU node within one clock value: the
\* access times tie and A, first in stored order, is the key evicted
C34_Witness ==
    \E n \in DOMAIN nodes :
        /\ nodes[n].eviction_policy = "LRU" /\ nodes[n].max_size = 2
        /\ calls = LRUScript /\ now = 0
        /\ last.op = "set" /\ last.evicted = {"A"}

\* C33: a node that is not a TTL node never has an expiry, whatever ttl its
\* sets were given; a DistributedCache.get of a key stored on such a node
\* returns the stored value at any clock value; and a get that finds its
\* key stored and returns None ran on a TTL node.
C33_TTLOnlyOnTTLNodes ==
    [][\A n \in DOMAIN nodes :
          /\ nodes[n].eviction_policy /= "TTL" =>
                /\ nodes'[n].ttl = EmptyMap
                /\ (/\ last'.op = "dc_get" /\ last'.node = n
                    /\ last'.key \in DOMAIN nodes[n].cache)
                      => /\ last'.ret = nodes[n].cache[last'.key]
                         /\ last'.key \in DOMAIN nodes'[n].cache
          /\ (/\ last'.op = "dc_get" /\ last'.node = n
              /\ last'.had /\ last'.ret = None)
                => nodes[n].eviction_policy = "TTL"]_vars

\* a set with ttl 0 made after the clock has moved has stored its key on
\* the LRU node, which has no expiry for it
C33_Witness ==
    /\ last.op = "dc_set" /\ last.exc = "" /\ last.ttl = 0
    /\ last.node = "node2" /\ now >= 1
    /\ last.key \in DOMAIN nodes["node2"].cache
    /\ nodes["node2"].ttl = EmptyMap

\* the nodes of the list the DistributedCache was built from
NodesOf(self) == {self.nodes[i] : i \in DOMAIN self.nodes}

\* C37: in a DistributedCache built from a non-empty node list, _get_node
\* returns for every key a node of that list and raises nothing, every
\* ring point maps to a node of that list, and every call ran on one.
C37_LocateInList ==
    dcache.nodes /= <<>> =>
        /\ \A key \in DistKeys :
              /\ _get_node(dcache, key).exc = ""
              /\ _get_node(dcache, key).node \in NodesOf(dcache)
        /\ \A p \in DOMAIN dcache.node_map :
              dcache.node_map[p] \in NodesOf(dcache)
        /\ last.op \in DistOps =>
              last.node \in NodesOf(dcache) /\ last.exc = ""

\* on the ring of two nodes an invalidate of B, which lies above every
\* point, has run on the node of the smallest point
C37_Witness ==
    /\ Len(dcache.nodes) = 2 /\ "node2" \in NodesOf(dcache)
    /\ last.op = "dc_invalidate" /\ last.key = "B" /\ last.had
    /\ last.node = "node2"

\* C36: with every node of the DistributedCache subscribed to the channel
\* and the nodes written through the DistributedCache only, the nodes after
\* publish(channel, k) are the nodes after DistributedCache.invalidate(k),
\* for every key k in every reachable state; and a publish that has run
\* removed the key from no node but the one _get_node gives for it.
C36_PublishAsInvalidate ==
    /\ \A k \in DistKeys :
          publish(pubsub, nodes, Channel, k).heap =
              dc_invalidate(nodes, _get_node(dcache, k).node, k)
    /\ last.op = "publish" =>
          last.removed \subseteq {_get_node(dcache, last.key).node}

\* on the ring of three nodes a publish has called all three and removed
\* the key from the one node that stored it
C36_Witness ==
    /\ Len(dcache.nodes) = 3 /\ Len(invoked) = 3
    /\ last.op = "publish" /\ Cardinality(last.removed) = 1

\* C35: a publish that runs while nodes are subscribed calls the nodes of
\* the subscriber list as it was when publish was called, each entry once,
\* in order: what it has called so far is a prefix of that list, and the
\* whole list when it has ended.
C35_PublishSnapshot ==
    threads["pub"].op = "publish" =>
        /\ IsPrefix(invoked, threads["pub"].snapshot)
        /\ threads["pub"].pc = "done" => invoked = threads["pub"].snapshot

====
